---- MODULE Spec2Model ----
(***************************************************************************)
(* The training orchestration of src/train.py (main): one process that     *)
(* prepares its output directory, optionally resumes from a weight file,   *)
(* and runs the epoch loop (baseline evaluation, training passes, two      *)
(* evaluation passes per epoch, best tracking, periodic snapshots and the  *)
(* results log).  One action per block of main, in program order.          *)
(***************************************************************************)
EXTENDS Integers, Sequences, FiniteSets, TLC

\* ------------------------------------------------------------------ bounds
\* args.epochs of the modelled runs
MaxEpochs == 2
\* largest args.weight_modulus
MaxModulus == 2
\* len(train_loader): training batches per epoch
TrainBatches == 2
\* largest accuracy value an evaluation pass returns (accuracies are 0..MaxAcc)
MaxAcc == 1
\* scaled-down SCHEDULER_WARMUP_STEPS of utilities.constants
SCHEDULER_WARMUP_STEPS == 2

\* --------------------------------------------------------------- constants
BASELINE_EPOCH == -1

\* losses an evaluation pass may return; Inf models float("inf")
LossValues == {1, 2}
Inf == 3
\* what the train-set evaluation pass returns (loss, accuracy)
TrainOutcomes == {[loss |-> 2, acc |-> 1]}
\* a user-supplied constant learning rate, as a fraction <<num, den>>
ConstLr == <<1, 2>>

None == <<>>
Some(x) == <<x>>
Val(o) == o[1]

Min(a, b) == IF a <= b THEN a ELSE b
Max(a, b) == IF a >= b THEN a ELSE b

\* ------------------------------------------------------------------- state
VARIABLES
    args,       \* the parsed command line (immutable)
    pre,        \* the persistence surface as it was when the process started
    pc,         \* position of main
    device,     \* the local `device`: None while unbound
    fs,         \* the persistence surface (output directory and its files)
    model,      \* None, or Some(weights)
    start_epoch,
    init_step,  \* None, or Some(lr_stepper.init_steps)
    sched,      \* None, or Some(lr_scheduler.last_epoch)
    opt,        \* None, or Some(learning rate held by the optimizer)
    funcs,      \* [eval |-> eval_loss_func, train |-> train_loss_func]
    best,       \* best_eval_acc, best_eval_acc_epoch, best_eval_loss, best_eval_loss_epoch
    epoch,      \* the loop variable
    batch,      \* batches of the current training pass already processed
    metrics,    \* train_loss, train_acc, eval_loss, eval_acc, lr, new_best
    passes,     \* every pass started so far, in order (history)
    saved,      \* every file write of the epoch loop so far, in order (history)
    first,      \* None, or Some(what an earlier run over the same inputs produced)
    prep        \* the state of prep_maestro_midi (src/preprocess_midi.py)

vars == <<args, pre, pc, device, fs, model, start_epoch, init_step, sched, opt,
          funcs, best, epoch, batch, metrics, passes, saved, first, prep>>

\* a model parameter snapshot: where it came from and how many updates it got
InitWeights == [base |-> "init", updates |-> 0]
LoadedWeights == [base |-> "continue_weights", updates |-> 0]
PriorWeights == [base |-> "prior", updates |-> 0]

\* ------------------------------------------------------------------ inputs
ArgsSet ==
    [force_cpu : BOOLEAN,
     no_tensorboard : BOOLEAN,
     continue_weights : BOOLEAN,
     continue_epoch : {None} \cup {Some(e) : e \in 0..(MaxEpochs - 1)},
     lr : {None, Some(ConstLr)},
     ce_smoothing : BOOLEAN,
     epochs : {MaxEpochs},
     weight_modulus : 1..MaxModulus]

CSV_HEADER ==
    [header |-> TRUE, epoch |-> 0, lr |-> <<0, 1>>, train_loss |-> 0,
     train_acc |-> 0, eval_loss |-> 0, eval_acc |-> 0]

Row(e, lr, tl, ta, el, ea) ==
    [header |-> FALSE, epoch |-> e, lr |-> lr, train_loss |-> tl,
     train_acc |-> ta, eval_loss |-> el, eval_acc |-> ea]

EmptyFs ==
    [dirs |-> {},
     params_file |-> None,
     results_file |-> None,
     best_acc_file |-> None,
     best_loss_file |-> None,
     best_text |-> None,
     weights |-> {},
     tensorboard |-> <<>>]

PriorArgs ==
    [force_cpu |-> TRUE, no_tensorboard |-> TRUE, continue_weights |-> FALSE,
     continue_epoch |-> None, lr |-> None, ce_smoothing |-> FALSE,
     epochs |-> MaxEpochs, weight_modulus |-> 1]

\* what an earlier run, stopped after its baseline epoch, left behind
PriorFs ==
    [dirs |-> {"output_dir", "weights", "results"},
     params_file |-> Some(PriorArgs),
     results_file |-> Some(<<CSV_HEADER, Row(0, <<1, 8>>, 2, 1, 2, 1)>>),
     best_acc_file |-> Some(PriorWeights),
     best_loss_file |-> Some(PriorWeights),
     best_text |-> Some([acc_epoch |-> 0, acc |-> 1, loss_epoch |-> 0, loss |-> 2]),
     weights |-> {[epoch |-> 0, weights |-> PriorWeights]},
     tensorboard |-> <<>>]

NoMetrics ==
    [train_loss |-> 0, train_acc |-> 0, eval_loss |-> 0, eval_acc |-> 0,
     lr |-> <<0, 1>>, new_best |-> FALSE]

NoBest == [acc |-> 0, acc_epoch |-> -1, loss |-> Inf, loss_epoch |-> -1]

\* how many of the optional settings of a run depart from the default run
\* (metrics sink on, no smoothing, scheduled learning rate, empty output_dir)
OptionsSet(a, p) ==
    (IF a.no_tensorboard THEN 1 ELSE 0) + (IF a.ce_smoothing THEN 1 ELSE 0)
    + (IF a.lr # None THEN 1 ELSE 0) + (IF p # EmptyFs THEN 1 ELSE 0)

\* the runs explored: each optional setting alone, and all of them together,
\* under every combination of the other arguments
Explored(a, p) == OptionsSet(a, p) <= 1 \/ OptionsSet(a, p) = 4

Init ==
    /\ args \in ArgsSet
    /\ pre \in {EmptyFs, PriorFs}
    /\ Explored(args, pre)
    /\ fs = pre
    /\ pc = "start"
    /\ device = None
    /\ model = None
    /\ start_epoch = BASELINE_EPOCH
    /\ init_step = None
    /\ sched = None
    /\ opt = None
    /\ funcs = [eval |-> "unset", train |-> "unset"]
    /\ best = NoBest
    /\ epoch = BASELINE_EPOCH
    /\ batch = 0
    /\ metrics = NoMetrics
    /\ passes = <<>>
    /\ saved = <<>>
    /\ first = None
    /\ prep = None

\* ------------------------------------------------------- startup (37-143)
\* lines 40-44: `device` is assigned only under force_cpu
DeviceOf(a) == IF a.force_cpu THEN Some("cpu") ELSE None

ParseArgs ==
    /\ pc = "start"
    /\ device' = DeviceOf(args)
    /\ pc' = "prep"
    /\ UNCHANGED <<first, prep, args, pre, fs, model, start_epoch, init_step, sched, opt,
                   funcs, best, epoch, batch, metrics, passes, saved>>

\* lines 45-61: output directory, parameter file, weights and results folders
OutputPrep ==
    /\ pc = "prep"
    /\ fs' = [fs EXCEPT !.dirs = @ \cup {"output_dir", "weights", "results"},
                        !.params_file = Some(args)]
    /\ pc' = "tensorboard"
    /\ UNCHANGED <<first, prep, args, pre, device, model, start_epoch, init_step, sched, opt,
                   funcs, best, epoch, batch, metrics, passes, saved>>

\* lines 63-70: the SummaryWriter creates its log directory
TensorboardInit ==
    /\ pc = "tensorboard"
    /\ fs' = IF args.no_tensorboard THEN fs
             ELSE [fs EXCEPT !.dirs = @ \cup {"tensorboard"}]
    /\ pc' = "model"
    /\ UNCHANGED <<first, prep, args, pre, device, model, start_epoch, init_step, sched, opt,
                   funcs, best, epoch, batch, metrics, passes, saved>>

\* lines 72-87: datasets, loaders, MusicTransformer(...).to(device)
BuildModel ==
    /\ pc = "model"
    /\ device # None
    /\ model' = Some(InitWeights)
    /\ pc' = "resume"
    /\ UNCHANGED <<first, prep, args, pre, device, fs, start_epoch, init_step, sched, opt,
                   funcs, best, epoch, batch, metrics, passes, saved>>

\* line 87 reads the unbound local `device`: UnboundLocalError ends the process
UnboundDevice ==
    /\ pc = "model"
    /\ device = None
    /\ pc' = "crashed"
    /\ UNCHANGED <<first, prep, args, pre, device, fs, model, start_epoch, init_step, sched,
                   opt, funcs, best, epoch, batch, metrics, passes, saved>>

\* mutant of StartEpoch: a fresh run starts at epoch 0, without the baseline
StartEpochNoBaseline(a) ==
    IF a.continue_weights /\ a.continue_epoch # None
    THEN Val(a.continue_epoch) ELSE 0

\* mutant of StartEpoch: a resumed run starts one epoch late
StartEpochOffByOne(a) ==
    IF a.continue_weights /\ a.continue_epoch # None
    THEN Val(a.continue_epoch) + 1 ELSE BASELINE_EPOCH

\* lines 90-97: the epoch the loop starts from
StartEpoch(a) ==
    IF a.continue_weights /\ a.continue_epoch # None
    THEN Val(a.continue_epoch) ELSE BASELINE_EPOCH

\* lines 91-94
ResumeMissingEpoch ==
    /\ pc = "resume"
    /\ args.continue_weights
    /\ args.continue_epoch = None
    /\ pc' = "aborted"
    /\ UNCHANGED <<first, prep, args, pre, device, fs, model, start_epoch, init_step, sched,
                   opt, funcs, best, epoch, batch, metrics, passes, saved>>

\* lines 95-97
ResumeLoad ==
    /\ pc = "resume"
    /\ args.continue_weights
    /\ args.continue_epoch # None
    /\ model' = Some(LoadedWeights)
    /\ start_epoch' = StartEpoch(args)
    /\ pc' = "setup"
    /\ UNCHANGED <<first, prep, args, pre, device, fs, init_step, sched, opt, funcs, best,
                   epoch, batch, metrics, passes, saved>>

\* mutant of ResumeMissingWeights: the check is missing and the run goes on
ResumeMissingWeightsIgnored ==
    /\ pc = "resume"
    /\ ~args.continue_weights
    /\ args.continue_epoch # None
    /\ pc' = "setup"
    /\ UNCHANGED <<first, prep, args, pre, device, fs, model, start_epoch, init_step, sched,
                   opt, funcs, best, epoch, batch, metrics, passes, saved>>

\* lines 98-100
ResumeMissingWeights ==
    /\ pc = "resume"
    /\ ~args.continue_weights
    /\ args.continue_epoch # None
    /\ pc' = "aborted"
    /\ UNCHANGED <<first, prep, args, pre, device, fs, model, start_epoch, init_step, sched,
                   opt, funcs, best, epoch, batch, metrics, passes, saved>>

\* lines 90-100 with neither resume argument: a fresh run
ResumeNone ==
    /\ pc = "resume"
    /\ ~args.continue_weights
    /\ args.continue_epoch = None
    /\ start_epoch' = StartEpoch(args)
    /\ pc' = "setup"
    /\ UNCHANGED <<first, prep, args, pre, device, fs, model, init_step, sched, opt, funcs,
                   best, epoch, batch, metrics, passes, saved>>

\* mutant of InitStepOf: the step counter restarted at 0 on resume
InitStepRestart(a) == 0

\* mutant of InitStepOf: the offset of a resumed run counts one epoch too many
InitStepNextEpoch(a) ==
    IF a.continue_epoch = None THEN 0
    ELSE (Val(a.continue_epoch) + 1) * TrainBatches

\* lines 104-107: the schedule's step offset
InitStepOf(a) ==
    IF a.continue_epoch = None THEN 0
    ELSE Val(a.continue_epoch) * TrainBatches

\* mutant of LrStep: the warmup branch alone, without the min with e^(-1/2)
LrStepLinear(init, step) ==
    LET e == Max(step + init, 1)
        w3 == SCHEDULER_WARMUP_STEPS * SCHEDULER_WARMUP_STEPS * SCHEDULER_WARMUP_STEPS
    IN  <<e * e * e, e * w3>>

\* LrStepTracker.step: d * lr^2 as the fraction <<num, den>>, with
\* e = max(step + init_steps, 1) and lr = d^(-1/2) * min(e^(-1/2), e * W^(-3/2))
LrStep(init, step) ==
    LET e == Max(step + init, 1)
        w3 == SCHEDULER_WARMUP_STEPS * SCHEDULER_WARMUP_STEPS * SCHEDULER_WARMUP_STEPS
    IN  <<Min(w3, e * e * e), e * w3>>

\* mutant of LossFuncs: the smoothing loss is used for evaluation too
LossFuncsSmoothedEval(a) ==
    [eval |-> IF a.ce_smoothing THEN "SmoothCrossEntropyLoss" ELSE "CrossEntropyLoss",
     train |-> IF a.ce_smoothing THEN "SmoothCrossEntropyLoss" ELSE "CrossEntropyLoss"]

\* lines 115-121
LossFuncs(a) ==
    [eval |-> "CrossEntropyLoss",
     train |-> IF a.ce_smoothing THEN "SmoothCrossEntropyLoss" ELSE "CrossEntropyLoss"]

\* lines 102-135: schedule or constant rate, loss functions, optimizer, best records
Setup ==
    /\ pc = "setup"
    /\ init_step' = IF args.lr = None THEN Some(InitStepOf(args)) ELSE None
    /\ funcs' = LossFuncs(args)
    /\ sched' = IF args.lr = None THEN Some(0) ELSE None
    /\ opt' = IF args.lr = None THEN Some(LrStep(InitStepOf(args), 0))
              ELSE Some(Val(args.lr))
    /\ best' = NoBest
    /\ pc' = "results"
    /\ UNCHANGED <<first, prep, args, pre, device, fs, model, start_epoch, epoch, batch,
                   metrics, passes, saved>>

\* lines 137-141: the header is written only when the log does not exist yet
ResultsHeader ==
    /\ pc = "results"
    /\ fs' = IF fs.results_file = None
             THEN [fs EXCEPT !.results_file = Some(<<CSV_HEADER>>)]
             ELSE fs
    /\ epoch' = start_epoch
    /\ pc' = "loop"
    /\ UNCHANGED <<first, prep, args, pre, device, model, start_epoch, init_step, sched, opt,
                   funcs, best, batch, metrics, passes, saved>>

\* ------------------------------------------------------ epoch loop (145-224)
\* mutant of IsTrainingEpoch: the baseline epoch trains too
IsTrainingEpochOrBaseline(e) == e >= BASELINE_EPOCH

\* line 147: every epoch but the baseline trains
IsTrainingEpoch(e) == e > BASELINE_EPOCH

Pass(kind, loader, func, loss, acc) ==
    [kind |-> kind, epoch |-> epoch + 1, loader |-> loader, loss_func |-> func,
     loss |-> loss, acc |-> acc]

\* lines 145-160: the loop head and the branch on the baseline epoch
LoopHead ==
    /\ pc = "loop"
    /\ epoch < args.epochs
    /\ IF IsTrainingEpoch(epoch)
       THEN /\ pc' = "train"
            /\ passes' = Append(passes, Pass("train", "train_loader", funcs.train, 0, 0))
       ELSE /\ pc' = "eval_train"
            /\ passes' = passes
    /\ batch' = 0
    /\ UNCHANGED <<first, prep, saved, args, pre, device, fs, model, start_epoch, init_step, sched,
                   opt, funcs, best, epoch, metrics>>

\* one parameter update of the optimizer
Updated(w) == [w EXCEPT !.updates = @ + 1]

\* line 154, train_epoch: one batch (forward, loss, optimizer update, and one
\* step of the schedule when there is one)
TrainBatch ==
    /\ pc = "train"
    /\ batch < TrainBatches
    /\ model' = Some(Updated(Val(model)))
    /\ IF sched # None
       THEN /\ sched' = Some(Val(sched) + 1)
            /\ opt' = Some(LrStep(Val(init_step), Val(sched) + 1))
       ELSE UNCHANGED <<sched, opt>>
    /\ batch' = batch + 1
    /\ pc' = IF batch + 1 = TrainBatches THEN "eval_train" ELSE "train"
    /\ UNCHANGED <<first, prep, args, pre, device, fs, start_epoch, init_step, funcs, best,
                   epoch, metrics, passes, saved>>

\* line 165: evaluation over the training set, with train_loss_func
EvalTrain ==
    /\ pc = "eval_train"
    /\ \E o \in TrainOutcomes :
          /\ metrics' = [metrics EXCEPT !.train_loss = o.loss, !.train_acc = o.acc]
          /\ passes' = Append(passes, Pass("eval", "train_loader", funcs.train, o.loss, o.acc))
    /\ pc' = "eval_test"
    /\ UNCHANGED <<first, prep, saved, args, pre, device, fs, model, start_epoch, init_step, sched,
                   opt, funcs, best, epoch, batch>>

\* line 170: evaluation over the held-out set, with eval_loss_func
EvalTest ==
    /\ pc = "eval_test"
    /\ \E l \in LossValues, a \in 0..MaxAcc :
          /\ metrics' = [metrics EXCEPT !.eval_loss = l, !.eval_acc = a]
          /\ passes' = Append(passes, Pass("eval", "test_loader", funcs.eval, l, a))
    /\ pc' = "track_acc"
    /\ UNCHANGED <<first, prep, saved, args, pre, device, fs, model, start_epoch, init_step, sched,
                   opt, funcs, best, epoch, batch>>

\* mutant of ImprovedAcc: a tie counts as an improvement
ImprovedAccOrTie(acc, b) == acc >= b.acc

\* mutant of ImprovedAcc: the accuracy compared with the loss record
ImprovedAccVsLoss(acc, b) == acc > b.loss

\* line 187
ImprovedAcc(acc, b) == acc > b.acc

\* line 193
ImprovedLoss(loss, b) == loss < b.loss

\* one write of the loop: which file, in which epoch (as labelled, epoch+1)
Saved(file) == [file |-> file, epoch |-> epoch + 1]

\* lines 175-191: read the learning rate, reset new_best, accuracy record
TrackAcc ==
    /\ pc = "track_acc"
    /\ IF ImprovedAcc(metrics.eval_acc, best)
       THEN /\ best' = [best EXCEPT !.acc = metrics.eval_acc, !.acc_epoch = epoch + 1]
            /\ fs' = [fs EXCEPT !.best_acc_file = model]
            /\ saved' = Append(saved, Saved("best_acc_file"))
            /\ metrics' = [metrics EXCEPT !.lr = Val(opt), !.new_best = TRUE]
       ELSE /\ metrics' = [metrics EXCEPT !.lr = Val(opt), !.new_best = FALSE]
            /\ UNCHANGED <<best, fs, saved>>
    /\ pc' = "track_loss"
    /\ UNCHANGED <<first, prep, args, pre, device, model, start_epoch, init_step, sched, opt,
                   funcs, epoch, batch, passes>>

\* lines 193-197: loss record
TrackLoss ==
    /\ pc = "track_loss"
    /\ IF ImprovedLoss(metrics.eval_loss, best)
       THEN /\ best' = [best EXCEPT !.loss = metrics.eval_loss, !.loss_epoch = epoch + 1]
            /\ fs' = [fs EXCEPT !.best_loss_file = model]
            /\ saved' = Append(saved, Saved("best_loss_file"))
            /\ metrics' = [metrics EXCEPT !.new_best = TRUE]
       ELSE UNCHANGED <<best, fs, metrics, saved>>
    /\ pc' = "write_best"
    /\ UNCHANGED <<first, prep, args, pre, device, model, start_epoch, init_step, sched, opt,
                   funcs, epoch, batch, passes>>

\* mutant of WriteBest: the summary is rewritten in every epoch
WriteBestEveryEpoch ==
    /\ pc = "write_best"
    /\ fs' = [fs EXCEPT !.best_text =
                 Some([acc_epoch |-> best.acc_epoch, acc |-> best.acc,
                       loss_epoch |-> best.loss_epoch, loss |-> best.loss])]
    /\ saved' = Append(saved, Saved("best_text"))
    /\ pc' = "tensorboard_log"
    /\ UNCHANGED <<first, prep, args, pre, device, model, start_epoch, init_step, sched, opt,
                   funcs, best, epoch, batch, metrics, passes>>

\* lines 199-206: the summary of the bests, rewritten in full
WriteBest ==
    /\ pc = "write_best"
    /\ IF metrics.new_best
       THEN /\ fs' = [fs EXCEPT !.best_text =
                        Some([acc_epoch |-> best.acc_epoch, acc |-> best.acc,
                              loss_epoch |-> best.loss_epoch, loss |-> best.loss])]
            /\ saved' = Append(saved, Saved("best_text"))
       ELSE UNCHANGED <<fs, saved>>
    /\ pc' = "tensorboard_log"
    /\ UNCHANGED <<first, prep, args, pre, device, model, start_epoch, init_step, sched, opt,
                   funcs, best, epoch, batch, metrics, passes>>

\* mutant of TensorboardLog: the block of the sink clobbers the local lr
TensorboardLogClobbersLr ==
    /\ pc = "tensorboard_log"
    /\ fs' = IF ~args.no_tensorboard
             THEN [fs EXCEPT !.tensorboard =
                      Append(@, Row(epoch + 1, metrics.lr, metrics.train_loss,
                                    metrics.train_acc, metrics.eval_loss,
                                    metrics.eval_acc))]
             ELSE fs
    /\ metrics' = IF ~args.no_tensorboard THEN [metrics EXCEPT !.lr = <<0, 1>>]
                  ELSE metrics
    /\ pc' = "snapshot"
    /\ UNCHANGED <<first, prep, args, pre, device, model, start_epoch, init_step, sched, opt,
                   funcs, best, epoch, batch, passes, saved>>

\* lines 209-215: the five scalars of the epoch, then flush
TensorboardLog ==
    /\ pc = "tensorboard_log"
    /\ fs' = IF ~args.no_tensorboard
             THEN [fs EXCEPT !.tensorboard =
                      Append(@, Row(epoch + 1, metrics.lr, metrics.train_loss,
                                    metrics.train_acc, metrics.eval_loss,
                                    metrics.eval_acc))]
             ELSE fs
    /\ pc' = "snapshot"
    /\ UNCHANGED <<first, prep, args, pre, device, model, start_epoch, init_step, sched, opt,
                   funcs, best, epoch, batch, metrics, passes, saved>>

\* line 217
SnapshotDue(e, modulus) == (e + 1) % modulus = 0

\* the file epoch_<n>.pickle written (or overwritten) with weights w
WithSnapshot(files, n, w) ==
    {f \in files : f.epoch # n} \cup {[epoch |-> n, weights |-> w]}

\* lines 217-220: the numbered snapshot
Snapshot ==
    /\ pc = "snapshot"
    /\ IF SnapshotDue(epoch, args.weight_modulus)
       THEN /\ fs' = [fs EXCEPT !.weights = WithSnapshot(@, epoch + 1, Val(model))]
            /\ saved' = Append(saved, Saved("epoch_pickle"))
       ELSE UNCHANGED <<fs, saved>>
    /\ pc' = "row"
    /\ UNCHANGED <<first, prep, args, pre, device, model, start_epoch, init_step, sched, opt,
                   funcs, best, epoch, batch, metrics, passes>>

\* the row of line 224
ResultRow ==
    Row(epoch + 1, metrics.lr, metrics.train_loss, metrics.train_acc,
        metrics.eval_loss, metrics.eval_acc)

\* mutant of WriteRow: the log opened with "w" instead of "a"
WriteRowTruncating ==
    /\ pc = "row"
    /\ fs' = [fs EXCEPT !.results_file = Some(<<ResultRow>>)]
    /\ saved' = Append(saved, Saved("results_file"))
    /\ epoch' = epoch + 1
    /\ pc' = "loop"
    /\ UNCHANGED <<first, prep, args, pre, device, model, start_epoch, init_step, sched, opt,
                   funcs, best, batch, metrics, passes>>

\* lines 222-224: the result row of the epoch; the loop then moves on
WriteRow ==
    /\ pc = "row"
    /\ fs' = [fs EXCEPT !.results_file = Some(Append(Val(@), ResultRow))]
    /\ saved' = Append(saved, Saved("results_file"))
    /\ epoch' = epoch + 1
    /\ pc' = "loop"
    /\ UNCHANGED <<first, prep, args, pre, device, model, start_epoch, init_step, sched, opt,
                   funcs, best, batch, metrics, passes>>

\* lines 226-230: the loop is over
Finish ==
    /\ pc = "loop"
    /\ ~(epoch < args.epochs)
    /\ pc' = "done"
    /\ UNCHANGED <<first, prep, args, pre, device, fs, model, start_epoch, init_step, sched,
                   opt, funcs, best, epoch, batch, metrics, passes, saved>>

Next ==
    \/ ParseArgs
    \/ OutputPrep
    \/ TensorboardInit
    \/ BuildModel
    \/ UnboundDevice
    \/ ResumeMissingEpoch
    \/ ResumeLoad
    \/ ResumeMissingWeights
    \/ ResumeNone
    \/ Setup
    \/ ResultsHeader
    \/ LoopHead
    \/ TrainBatch
    \/ EvalTrain
    \/ EvalTest
    \/ TrackAcc
    \/ TrackLoss
    \/ WriteBest
    \/ TensorboardLog
    \/ Snapshot
    \/ WriteRow
    \/ Finish

Spec == Init /\ [][Next]_vars

\* ------------------------------------------------------------------ claims
Scheduled == args.lr = None
Resumed == args.continue_weights /\ args.continue_epoch # None
Fresh == ~args.continue_weights /\ args.continue_epoch = None
Misconfigured == args.continue_weights # (args.continue_epoch # None)

\* the step counter the schedule works with: offset plus steps taken
StepCounter == Val(init_step) + Val(sched)

\* the step counter of an uninterrupted from-scratch run when it is about to
\* process batch b (from 0) of the epoch labelled e: all earlier epochs' batches
FromScratchStep(e, b) == (e - 1) * TrainBatches + b

\* C1: a scheduled run resumed from (E, weights) first executes a training
\* pass labelled E+1 and no epoch <= E, its step offset is E * (batches per
\* epoch), and at every batch of every epoch its step counter is the one an
\* uninterrupted from-scratch run has at that batch (which the from-scratch
\* runs of this specification have too).
C1_ScheduleContinuity ==
    Scheduled =>
       /\ (pc = "train" => StepCounter = FromScratchStep(epoch + 1, batch))
       /\ Resumed =>
             LET E == Val(args.continue_epoch)
             IN  /\ init_step # None => Val(init_step) = E * TrainBatches
                 /\ passes # <<>> =>
                       passes[1].kind = "train" /\ passes[1].epoch = E + 1
                 /\ \A i \in DOMAIN passes : passes[i].epoch > E

\* C1 witness: a scheduled run resumed from E >= 1 in the middle of a training pass
C1_Witness ==
    /\ Scheduled /\ Resumed
    /\ Val(args.continue_epoch) >= 1
    /\ pc = "train" /\ batch >= 1

LoopWrites == <<fs.results_file, fs.best_acc_file, fs.best_loss_file, fs.weights>>
PreLoopWrites == <<pre.results_file, pre.best_acc_file, pre.best_loss_file, pre.weights>>

\* C2: a run given exactly one of continue_weights / continue_epoch never
\* enters the epoch loop: no training or evaluation pass is executed, no row is
\* appended and no best or numbered weight artifact is written.
C2_MisconfiguredResumeAborts ==
    Misconfigured =>
       /\ pc \in {"start", "prep", "tensorboard", "model", "resume", "aborted", "crashed"}
       /\ passes = <<>>
       /\ saved = <<>>
       /\ LoopWrites = PreLoopWrites

\* C2 witness: the abort for a missing epoch number, over an earlier run's files
C2_Witness ==
    /\ pc = "aborted"
    /\ args.continue_weights
    /\ pre = PriorFs

\* C3 as stated: after the abort of a misconfigured resume the persistence
\* surface is as it was before the run and no training state exists.
C3_NothingWritten ==
    pc = "aborted" => (fs = pre /\ model = None /\ opt = None /\ sched = None)

\* the log as the run found it (the header alone when it had to create it)
PreLog == IF pre.results_file = None THEN <<CSV_HEADER>> ELSE Val(pre.results_file)
Log == Val(fs.results_file)
\* the rows this run has appended
Appended == SubSeq(Log, Len(PreLog) + 1, Len(Log))
Startup == pc \in {"start", "prep", "tensorboard", "model", "resume", "setup",
                   "results", "aborted", "crashed"}
BetweenEpochs == pc \in {"loop", "done"}

PassesOf(e) ==
    LET OfEpoch(p) == p.epoch = e
    IN  SelectSeq(passes, OfEpoch)

\* C4: every executed epoch appends exactly one row, as its last step; the
\* appended rows carry start_epoch+1, start_epoch+2, ... (0, 1..N for a fresh
\* run, E+1..N for a run resumed from E); the log the run found is kept as it was.
C4_OneRowPerEpoch ==
    /\ pre.results_file # None => fs.results_file # None
    /\ fs.results_file # None =>
          /\ Len(Log) >= Len(PreLog)
          /\ SubSeq(Log, 1, Len(PreLog)) = PreLog
    /\ ~Startup =>
          LET rows == Appended
              executed == {passes[i].epoch : i \in DOMAIN passes}
          IN
          /\ Len(rows) = epoch - start_epoch
          /\ \A i \in 1..Len(rows) :
                /\ ~rows[i].header
                /\ rows[i].epoch = start_epoch + i
                /\ rows[i].epoch \in executed
          /\ executed \subseteq ({rows[k].epoch : k \in 1..Len(rows)}
                                 \cup (IF BetweenEpochs THEN {} ELSE {epoch + 1}))
          /\ \A i \in 1..(Len(saved) - 1) :
                /\ saved[i].epoch <= saved[i + 1].epoch
                /\ saved[i].file = "results_file" => saved[i].epoch < saved[i + 1].epoch
          /\ pc = "done" => Len(rows) = args.epochs - start_epoch

\* C4 witness: a finished run that appended at least two rows to an earlier log
C4_Witness ==
    /\ pc = "done"
    /\ pre = PriorFs
    /\ Len(Appended) >= 2

\* the held-out evaluations so far: what the best tracker is fed
Obs ==
    LET HeldOut(p) == p.kind = "eval" /\ p.loader = "test_loader"
    IN  SelectSeq(passes, HeldOut)
Tracking == pc \in {"track_acc", "track_loss", "write_best"}
Wrote(file, e) == \E i \in DOMAIN saved : saved[i].file = file /\ saved[i].epoch = e
SetMax(S) == CHOOSE x \in S : \A y \in S : y <= x
SetMin(S) == CHOOSE x \in S : \A y \in S : x <= y
\* the records the first i-1 of the observations o lead to
AccBefore(o, i) == SetMax({0} \cup {o[j].acc : j \in 1..(i - 1)})
LossBefore(o, i) == SetMin({Inf} \cup {o[j].loss : j \in 1..(i - 1)})
\* observation i is the earliest one with that accuracy (loss)
EarliestAcc(o, i) == \A j \in 1..(i - 1) : o[j].acc # o[i].acc
EarliestLoss(o, i) == \A j \in 1..(i - 1) : o[j].loss # o[i].loss

\* the part of C5 on what each of the first n observations did
C5_Updates(o, n) ==
    \A i \in 1..n :
       LET moreAcc == o[i].acc > AccBefore(o, i)
           lessLoss == o[i].loss < LossBefore(o, i)
       IN  /\ Wrote("best_acc_file", o[i].epoch) <=> moreAcc
           /\ Wrote("best_loss_file", o[i].epoch) <=> lessLoss
           /\ Wrote("best_text", o[i].epoch) <=> (moreAcc \/ lessLoss)

\* C5 as stated: strict, independent updates; ties write nothing; the records
\* are the maximum accuracy (and 0) and the minimum loss seen, and each best
\* epoch is the earliest epoch that attained the record.
C5_Original ==
    LET o == Obs
    IN  /\ C5_Updates(o, IF Tracking THEN Len(o) - 1 ELSE Len(o))
        /\ (~Tracking /\ Len(o) >= 1) =>
              /\ best.acc = AccBefore(o, Len(o) + 1)
              /\ best.loss = LossBefore(o, Len(o) + 1)
              /\ \E i \in 1..Len(o) :
                    o[i].acc = best.acc /\ o[i].epoch = best.acc_epoch /\ EarliestAcc(o, i)
              /\ \E i \in 1..Len(o) :
                    o[i].loss = best.loss /\ o[i].epoch = best.loss_epoch /\ EarliestLoss(o, i)

\* C5 amended: as stated, except that best_eval_acc_epoch keeps its initial -1
\* as long as no accuracy above the initial record 0 has been observed.
C5_StrictIndependentRecords ==
    LET o == Obs
    IN  /\ C5_Updates(o, IF Tracking THEN Len(o) - 1 ELSE Len(o))
        /\ (~Tracking /\ Len(o) >= 1) =>
              /\ best.acc = AccBefore(o, Len(o) + 1)
              /\ best.loss = LossBefore(o, Len(o) + 1)
              /\ IF best.acc = 0 THEN best.acc_epoch = -1
                 ELSE \E i \in 1..Len(o) :
                    o[i].acc = best.acc /\ o[i].epoch = best.acc_epoch /\ EarliestAcc(o, i)
              /\ \E i \in 1..Len(o) :
                    o[i].loss = best.loss /\ o[i].epoch = best.loss_epoch /\ EarliestLoss(o, i)

\* C5 witness: an epoch that tied on both metrics and wrote nothing, after an
\* epoch that improved both
C5_Witness ==
    LET o == Obs
    IN  /\ pc = "tensorboard_log"
        /\ Len(o) >= 2
        /\ o[Len(o)].acc = best.acc /\ o[Len(o)].loss = best.loss
        /\ best.acc > 0
        /\ best.acc_epoch < epoch + 1 /\ best.loss_epoch < epoch + 1
        /\ ~Wrote("best_text", epoch + 1)

Increasing(o, n) == \A i \in 1..(n - 1) : o[i].acc < o[i + 1].acc

C7_Original ==
    LET o == Obs
        n == IF Tracking THEN Len(o) - 1 ELSE Len(o)
    IN  (Fresh /\ \E i \in 1..n : o[i].epoch = 1) =>
           /\ Wrote("best_acc_file", 1)
           /\ Wrote("best_loss_file", 1)

\* C7 amended: the first observation of a run started from scratch is the
\* baseline, labelled epoch 0: the best-by-loss artifact is written on epoch 0
\* whatever the loss, the best-by-accuracy artifact on epoch 0 iff the observed
\* accuracy is above 0; on epoch 1 each artifact is written iff epoch 1
\* strictly improves on the record left by the baseline.
C7_FirstObservationIsBaseline ==
    LET o == Obs
        n == IF Tracking THEN Len(o) - 1 ELSE Len(o)
    IN  Fresh =>
           /\ Len(o) >= 1 => o[1].epoch = 0
           /\ n >= 1 =>
                 /\ Wrote("best_loss_file", 0)
                 /\ Wrote("best_acc_file", 0) <=> o[1].acc > 0
           /\ n >= 2 =>
                 /\ o[2].epoch = 1
                 /\ Wrote("best_acc_file", 1) <=> o[2].acc > Max(0, o[1].acc)
                 /\ Wrote("best_loss_file", 1) <=> o[2].loss < o[1].loss

\* C7 witness: epoch 1 of a fresh run tracked without writing either artifact,
\* both having been written on the baseline
C7_Witness ==
    /\ Fresh
    /\ ~Tracking /\ Len(Obs) >= 2
    /\ Wrote("best_acc_file", 0) /\ Wrote("best_loss_file", 0)
    /\ ~Wrote("best_acc_file", 1) /\ ~Wrote("best_loss_file", 1)

\* the epochs at which a numbered snapshot has been written
SnapshotEpochs == {saved[i].epoch : i \in {k \in DOMAIN saved : saved[k].file = "epoch_pickle"}}

\* C8 as stated: a run of N epochs started from scratch with period P writes a
\* numbered snapshot at exactly the epochs e in 1..N with e mod P = 0.
C8_SnapshotsOnlyAtMultiples ==
    Fresh =>
       /\ SnapshotEpochs \subseteq {e \in 1..args.epochs : e % args.weight_modulus = 0}
       /\ pc = "done" =>
             SnapshotEpochs = {e \in 1..args.epochs : e % args.weight_modulus = 0}

KindOf(p) == <<p.kind, p.loader>>
\* the passes of a whole epoch, in order
EpochPasses(e) ==
    IF e = 0
    THEN <<<<"eval", "train_loader">>, <<"eval", "test_loader">>>>
    ELSE <<<<"train", "train_loader">>, <<"eval", "train_loader">>,
           <<"eval", "test_loader">>>>
IsPrefix(s, t) ==
    /\ Len(s) <= Len(t)
    /\ \A i \in 1..Len(s) : s[i] = t[i]
Kinds(ps) == [i \in 1..Len(ps) |-> KindOf(ps[i])]

\* C9: the baseline epoch only evaluates and leaves the model parameters and
\* the step counter alone; every other epoch runs one training pass, then the
\* train-set evaluation, then the held-out evaluation; the tracker's records
\* and best files are written only after both evaluations of the epoch, and
\* the records hold held-out results only.
C9_EpochPassOrder ==
    /\ \A i \in 1..(Len(passes) - 1) : passes[i].epoch <= passes[i + 1].epoch
    /\ \A e \in {passes[i].epoch : i \in DOMAIN passes} :
          IsPrefix(Kinds(PassesOf(e)), EpochPasses(e))
    /\ \A e \in {saved[i].epoch : i \in DOMAIN saved} :
          Kinds(PassesOf(e)) = EpochPasses(e)
    /\ (~Startup /\ epoch = BASELINE_EPOCH) =>
          /\ model = Some(InitWeights)
          /\ sched \in {None, Some(0)}
    /\ LET o == Obs
       IN  /\ best.acc_epoch # -1 =>
                 \E i \in 1..Len(o) : o[i].epoch = best.acc_epoch /\ o[i].acc = best.acc
           /\ best.loss_epoch # -1 =>
                 \E i \in 1..Len(o) : o[i].epoch = best.loss_epoch /\ o[i].loss = best.loss
           /\ Tracking =>
                 /\ metrics.eval_acc = o[Len(o)].acc
                 /\ metrics.eval_loss = o[Len(o)].loss

\* C9 witness: a training epoch after the baseline, all three passes done,
\* the tracker fed with a held-out loss that differs from the train-set one
C9_Witness ==
    /\ Fresh
    /\ pc = "write_best"
    /\ epoch = 0
    /\ best.loss_epoch = 1
    /\ metrics.train_loss # metrics.eval_loss
    /\ Kinds(PassesOf(0)) = EpochPasses(0)
    /\ Kinds(PassesOf(1)) = EpochPasses(1)

TrainedEpochs == {passes[i].epoch : i \in {k \in DOMAIN passes : passes[k].kind = "train"}}

MaxPieces == 3

\* piece["split"] values: the three recognized ones and one that is not
Splits == {"train", "validation", "test", "other"}
\* piece["midi_filename"] values, as path components: two share a base name
MidiFilenames == {<<"2004", "a.midi">>, <<"2006", "a.midi">>, <<"2004", "b.midi">>}
PieceSet == [midi_filename : MidiFilenames, split : Splits]
\* the JSON files: every list of at most MaxPieces pieces
JsonFiles == UNION {[1..n -> PieceSet] : n \in 0..MaxPieces}

\* line 50: os.path.join(maestro_root, piece["midi_filename"])
Mid(piece) == <<"maestro_root">> \o piece.midi_filename
\* line 52: mid.split("/")[-1] + ".pickle"
FName(mid) == <<mid[Len(mid)], ".pickle">>
\* lines 54-62: the directory of a recognized split
SplitDir(split) ==
    IF split = "train" THEN "train"
    ELSE IF split = "validation" THEN "val"
    ELSE "test"
\* mutant of Recognized: the else branch is missing, every label is processed
RecognizedOrOther(split) == TRUE
\* lines 54-63: the labels with a branch of their own
Recognized(split) == split \in {"train", "validation", "test"}
\* lines 67-70: open(o_file, "wb") creates or replaces the file
WithFile(files, dir, name, data) ==
    {f \in files : ~(f.dir = dir /\ f.name = name)}
    \cup {[dir |-> dir, name |-> name, data |-> data]}

\* the training process is not running (all of its state but the schedule's)
NoProcess ==
    /\ args = PriorArgs
    /\ pre = EmptyFs
    /\ fs = EmptyFs
    /\ pc = "idle"
    /\ device = None
    /\ model = None
    /\ start_epoch = BASELINE_EPOCH
    /\ funcs = [eval |-> "unset", train |-> "unset"]
    /\ best = NoBest
    /\ epoch = BASELINE_EPOCH
    /\ batch = 0
    /\ metrics = NoMetrics
    /\ passes = <<>>
    /\ saved = <<>>
    /\ first = None

TrainIdle ==
    /\ NoProcess
    /\ init_step = None
    /\ sched = None
    /\ opt = None

train_vars == <<args, pre, pc, device, fs, model, start_epoch, init_step, sched,
                opt, funcs, best, epoch, batch, metrics, passes, saved, first>>

\* preprocess_midi.main about to call prep_maestro_midi(root, output_dir)
PrepInit ==
    /\ TrainIdle
    /\ \E present \in BOOLEAN, json \in JsonFiles :
          prep = Some([pc |-> "start",
                       json_present |-> present,
                       maestro_json |-> json,
                       dirs |-> {},
                       files |-> {},
                       i |-> 1,
                       total_count |-> 0,
                       train_count |-> 0,
                       val_count |-> 0,
                       test_count |-> 0,
                       encoded |-> <<>>,
                       ret |-> None])

P == Val(prep)

\* lines 24-33: the output directory and its three split directories
PrepMkdirs ==
    /\ prep # None /\ P.pc = "start"
    /\ prep' = Some([P EXCEPT !.pc = "json",
                               !.dirs = {"output_dir", "train", "val", "test"}])
    /\ UNCHANGED train_vars

\* lines 35-38: no JSON file under maestro_root
PrepNoJson ==
    /\ prep # None /\ P.pc = "json"
    /\ ~P.json_present
    /\ prep' = Some([P EXCEPT !.pc = "returned", !.ret = Some(FALSE)])
    /\ UNCHANGED train_vars

\* lines 40-47: the JSON file is loaded and the counters start at 0
PrepLoad ==
    /\ prep # None /\ P.pc = "json"
    /\ P.json_present
    /\ prep' = Some([P EXCEPT !.pc = "loop", !.i = 1, !.total_count = 0,
                               !.train_count = 0, !.val_count = 0, !.test_count = 0])
    /\ UNCHANGED train_vars

\* lines 49-74: one iteration for a piece with a recognized split: its
\* counter, encode_midi, the file, total_count
PrepPiece ==
    /\ prep # None /\ P.pc = "loop"
    /\ P.i <= Len(P.maestro_json)
    /\ LET piece == P.maestro_json[P.i]
           mid == Mid(piece)
           split_type == piece.split
       IN  /\ Recognized(split_type)
           /\ prep' = Some([P EXCEPT
                  !.train_count = IF split_type = "train" THEN @ + 1 ELSE @,
                  !.val_count = IF split_type = "validation" THEN @ + 1 ELSE @,
                  !.test_count = IF split_type = "test" THEN @ + 1 ELSE @,
                  !.encoded = Append(@, mid),
                  !.files = WithFile(@, SplitDir(split_type), FName(mid), mid),
                  !.total_count = @ + 1,
                  !.i = @ + 1])
    /\ UNCHANGED train_vars

\* lines 63-65: an unrecognized split ends the function
PrepUnrecognized ==
    /\ prep # None /\ P.pc = "loop"
    /\ P.i <= Len(P.maestro_json)
    /\ ~Recognized(P.maestro_json[P.i].split)
    /\ prep' = Some([P EXCEPT !.pc = "returned", !.ret = Some(FALSE)])
    /\ UNCHANGED train_vars

\* lines 76-79: every piece has been processed
PrepReturn ==
    /\ prep # None /\ P.pc = "loop"
    /\ P.i > Len(P.maestro_json)
    /\ prep' = Some([P EXCEPT !.pc = "returned", !.ret = Some(TRUE)])
    /\ UNCHANGED train_vars

\* lines 113-116: main ignores what prep_maestro_midi returned
PrepMainDone ==
    /\ prep # None /\ P.pc = "returned"
    /\ prep' = Some([P EXCEPT !.pc = "done"])
    /\ UNCHANGED train_vars

PrepNext ==
    \/ PrepMkdirs
    \/ PrepNoJson
    \/ PrepLoad
    \/ PrepPiece
    \/ PrepUnrecognized
    \/ PrepReturn
    \/ PrepMainDone

PrepSpec == PrepInit /\ [][PrepNext]_vars

\* the first piece with an unrecognized split, Len + 1 when there is none
FirstBad(json) ==
    LET bad == {k \in 1..Len(json) : json[k].split \notin {"train", "validation", "test"}}
    IN  IF bad = {} THEN Len(json) + 1 ELSE CHOOSE k \in bad : \A j \in bad : k <= j
CountSplit(json, n, split) == Cardinality({k \in 1..n : json[k].split = split})
\* the file piece k is written to
FileOf(json, k) ==
    [dir |-> SplitDir(json[k].split), name |-> FName(Mid(json[k]))]
\* what the function has done once the first n pieces are processed: encoded
\* and counted each of them, in order, and nothing else
Processed(p, n) ==
    /\ p.encoded = [k \in 1..n |-> Mid(p.maestro_json[k])]
    /\ p.total_count = n
    /\ p.train_count = CountSplit(p.maestro_json, n, "train")
    /\ p.val_count = CountSplit(p.maestro_json, n, "validation")
    /\ p.test_count = CountSplit(p.maestro_json, n, "test")
    /\ p.total_count = p.train_count + p.val_count + p.test_count
PrepReturned == prep # None /\ P.pc \in {"returned", "done"} /\ P.json_present

\* C15 as stated: at the first piece with an unrecognized split the function
\* returns False, that piece and the later ones being neither encoded, written
\* nor counted and the earlier files kept; with recognized splits only it
\* returns True, and in both cases the output holds one file per processed
\* piece, in the directory of its split.
C15_Original ==
    PrepReturned =>
       LET p == P
           n == FirstBad(p.maestro_json) - 1
       IN  /\ p.ret = Some(n = Len(p.maestro_json))
           /\ Processed(p, n)
           /\ Cardinality(p.files) = n
           /\ \A k \in 1..n :
                 \E f \in p.files :
                    /\ f.dir = FileOf(p.maestro_json, k).dir
                    /\ f.name = FileOf(p.maestro_json, k).name
                    /\ f.data = Mid(p.maestro_json[k])

\* C15 amended: the same, except that the file of a piece is named after the
\* last component of its midi_filename: the output holds one file per distinct
\* (split directory, base name) of the processed pieces, with the encoding of
\* the last processed piece that has this directory and base name.
C15_UnrecognizedSplitAborts ==
    /\ PrepReturned =>
          LET p == P
              json == p.maestro_json
              n == FirstBad(json) - 1
          IN  /\ p.ret = Some(n = Len(json))
              /\ Processed(p, n)
              /\ {[dir |-> f.dir, name |-> f.name] : f \in p.files}
                    = {FileOf(json, k) : k \in 1..n}
              /\ Cardinality(p.files) = Cardinality({FileOf(json, k) : k \in 1..n})
              /\ \A k \in 1..n :
                    (\A j \in (k + 1)..n : FileOf(json, j) # FileOf(json, k)) =>
                       [dir |-> FileOf(json, k).dir, name |-> FileOf(json, k).name,
                        data |-> Mid(json[k])] \in p.files
    /\ (prep # None /\ P.pc = "loop") =>
          /\ P.i - 1 <= FirstBad(P.maestro_json) - 1
          /\ Processed(P, P.i - 1)

\* C15 witness: the function returned False at the second of three pieces,
\* with the file of the first piece written and the third piece untouched
C15_Witness ==
    /\ prep # None
    /\ P.pc = "returned"
    /\ P.ret = Some(FALSE)
    /\ Len(P.maestro_json) = 3
    /\ FirstBad(P.maestro_json) = 2
    /\ Recognized(P.maestro_json[3].split)
    /\ Cardinality(P.files) = 1

\* ===================================================================
\* the learning-rate schedule on its own: LambdaLR(opt, lr_stepper.step)
\* ===================================================================
\* largest init_steps of the LrStepTracker
MaxInitSteps == 7
\* most steps of the scheduler
MaxSteps == 15

\* lines 110, 124-127: a tracker with any offset, the scheduler at step 0
LrInit ==
    /\ NoProcess
    /\ prep = None
    /\ init_step \in {Some(s0) : s0 \in 0..MaxInitSteps}
    /\ sched = Some(0)
    /\ opt = Some(LrStep(Val(init_step), 0))

\* lr_scheduler.step(): the next step's rate is computed and applied
LrSchedulerStep ==
    /\ pc = "idle"
    /\ sched # None
    /\ Val(sched) < MaxSteps
    /\ sched' = Some(Val(sched) + 1)
    /\ opt' = Some(LrStep(Val(init_step), Val(sched) + 1))
    /\ UNCHANGED <<args, pre, pc, device, fs, model, start_epoch, init_step, funcs,
                   best, epoch, batch, metrics, passes, saved, first, prep>>

LrNext == LrSchedulerStep

LrSpec == LrInit /\ [][LrNext]_vars

\* fractions <<num, den>> with den > 0
Less(a, b) == a[1] * b[2] < b[1] * a[2]
\* the guarded effective step of scheduler step s with offset s0
Effective(s0, s) == Max(s + s0, 1)

\* C16 as stated, for a schedule with offset S0 = 0: the rate at the current
\* step s2 is above the rate of every earlier step s1 (step 0 included) while
\* s2 <= W, below it when s1 is beyond W, and never above the rate at step W.
C16_Original ==
    (pc = "idle" /\ init_step = Some(0)) =>
       LET s2 == Val(sched)
           W == SCHEDULER_WARMUP_STEPS
       IN  /\ \A s1 \in 0..(s2 - 1) :
                 /\ s2 <= W => Less(LrStep(0, s1), Val(opt))
                 /\ s1 > W => Less(Val(opt), LrStep(0, s1))
           /\ ~Less(LrStep(0, W), Val(opt))

\* C16 amended: in terms of the guarded effective step e = max(step + S0, 1):
\* the rate strictly increases over 1 <= e1 < e2 <= W, strictly decreases over
\* W <= e1 < e2, and has its only maximum at e = W; two steps with the same
\* effective step (step 0 and step 1 when S0 = 0) have the same rate.
C16_WarmupThenDecay ==
    pc = "idle" =>
       LET s0 == Val(init_step)
           e2 == Effective(s0, Val(sched))
           W == SCHEDULER_WARMUP_STEPS
       IN  /\ \A s1 \in 0..(Val(sched) - 1) :
                 LET e1 == Effective(s0, s1)
                     lr1 == LrStep(s0, s1)
                 IN  /\ (e1 < e2 /\ e2 <= W) => Less(lr1, Val(opt))
                     /\ (W <= e1 /\ e1 < e2) => Less(Val(opt), lr1)
                     /\ e1 = e2 => lr1 = Val(opt)
           /\ IF e2 = W THEN Val(opt) = LrStep(0, W)
              ELSE Less(Val(opt), LrStep(0, W))

\* C16 witness: a schedule started at offset 0, now beyond its warmup
C16_Witness ==
    /\ pc = "idle"
    /\ init_step = Some(0)
    /\ Val(sched) = SCHEDULER_WARMUP_STEPS + 2

\* ===================================================================
\* claims on the training run (Spec), continued
\* ===================================================================
\* training batches this process has completed: whole passes, and the
\* batches of the pass in progress
BatchesProcessed ==
    LET n == Cardinality(TrainedEpochs)
    IN  IF pc = "train" THEN (n - 1) * TrainBatches + batch ELSE n * TrainBatches

\* C12: in a scheduled run the step counter is at every point the offset of
\* the run (0 from scratch, E * batches per epoch when resumed from E) plus
\* the number of training batches processed so far: one step per batch, none
\* for the baseline or an evaluation pass, never reset; a finished
\* from-scratch run of N epochs of B batches has counted N * B steps.
C12_StepCounterCountsBatches ==
    (Scheduled /\ sched # None) =>
       /\ Val(init_step) = (IF Resumed THEN Val(args.continue_epoch) * TrainBatches ELSE 0)
       /\ Val(sched) = BatchesProcessed
       /\ Val(sched) = Val(model).updates
       /\ StepCounter = Val(init_step) + BatchesProcessed
       /\ (Fresh /\ pc = "done") => StepCounter = args.epochs * TrainBatches
       /\ (Resumed /\ pc = "done") => StepCounter = args.epochs * TrainBatches

\* C12 witness: a finished scheduled run from scratch, N * B steps counted
C12_Witness ==
    /\ Scheduled /\ Fresh
    /\ pc = "done"
    /\ StepCounter = MaxEpochs * TrainBatches
    /\ Len(passes) = 3 * MaxEpochs + 2

\* C14 as stated: every evaluation pass, over the training set or the
\* held-out set, measures its loss with the plain variant.
C14_Original ==
    \A i \in DOMAIN passes :
       passes[i].kind = "eval" => passes[i].loss_func = "CrossEntropyLoss"

\* C14 amended: the held-out evaluation always measures its loss with the
\* plain variant; the train-set evaluation measures it with the loss function
\* of the training pass, the smoothing variant when smoothing is configured.
C14_HeldOutLossPlain ==
    \A i \in DOMAIN passes :
       IF passes[i].loader = "test_loader"
       THEN passes[i].kind = "eval" /\ passes[i].loss_func = "CrossEntropyLoss"
       ELSE passes[i].loss_func =
               (IF args.ce_smoothing THEN "SmoothCrossEntropyLoss" ELSE "CrossEntropyLoss")

\* C14 witness: a finished run from scratch with smoothing configured: the
\* baseline and every epoch evaluated on both sets
C14_Witness ==
    /\ args.ce_smoothing
    /\ Fresh
    /\ pc = "done"
    /\ Len(Obs) = MaxEpochs + 1

\* C17 as stated: a run whose resume arguments are consistent, whatever its
\* other options, never ends before the loop (only the two misconfigured
\* cases do), is never stuck before DONE, and executes the epochs of its range
\* once each, in increasing order.
C17_ConsistentRunsFinish ==
    /\ pc \in {"aborted", "crashed"} => Misconfigured
    /\ (Fresh \/ Resumed) =>
          /\ pc = "done" \/ ENABLED Next
          /\ \A i \in 1..(Len(passes) - 1) : passes[i].epoch <= passes[i + 1].epoch
          /\ pc = "done" =>
                {passes[i].epoch : i \in DOMAIN passes} = (start_epoch + 1)..args.epochs

\* the model parameters this run has at the end of the epoch labelled e: the
\* weights it started from, updated once per batch of every epoch it trained
WeightsAt(e) ==
    [base |-> IF Resumed THEN "continue_weights" ELSE "init",
     updates |-> (e - Max(start_epoch, 0)) * TrainBatches]
BestRecord ==
    [acc_epoch |-> best.acc_epoch, acc |-> best.acc,
     loss_epoch |-> best.loss_epoch, loss |-> best.loss]
\* the summary file was rewritten in exactly the epochs, among the first n
\* observed, in which a metric improved
SummaryOnImprovement(o, n) ==
    \A i \in 1..n :
       Wrote("best_text", o[i].epoch)
          <=> (o[i].acc > AccBefore(o, i) \/ o[i].loss < LossBefore(o, i))
WroteSummary == \E i \in DOMAIN saved : saved[i].file = "best_text"

\* C18 as stated: the summary file is rewritten in exactly the epochs in which
\* a metric improved; at the end of every epoch of a run that has written it,
\* it holds the tracker's four values, and each best artifact holds the
\* parameters of the epoch recorded as best for its metric.
C18_Original ==
    LET o == Obs
    IN  /\ SummaryOnImprovement(o, IF Tracking THEN Len(o) - 1 ELSE Len(o))
        /\ (BetweenEpochs /\ WroteSummary) =>
              /\ fs.best_text = Some(BestRecord)
              /\ fs.best_acc_file = Some(WeightsAt(best.acc_epoch))
              /\ fs.best_loss_file = Some(WeightsAt(best.loss_epoch))

\* C18 amended: the same, except that a metric no epoch of the run has
\* improved is recorded with epoch -1, and its artifact is then not written
\* by the run: it is absent, or still the file an earlier run left.
C18_SummaryOnImprovementOnly ==
    LET o == Obs
    IN  /\ SummaryOnImprovement(o, IF Tracking THEN Len(o) - 1 ELSE Len(o))
        /\ (BetweenEpochs /\ WroteSummary) =>
              /\ fs.best_text = Some(BestRecord)
              /\ fs.best_acc_file =
                    (IF best.acc_epoch = -1 THEN pre.best_acc_file
                     ELSE Some(WeightsAt(best.acc_epoch)))
              /\ best.loss_epoch # -1
              /\ fs.best_loss_file = Some(WeightsAt(best.loss_epoch))

\* C18 witness: the end of an epoch that improved nothing and left the summary
\* alone, the two bests being held by two different earlier epochs
C18_Witness ==
    /\ pc = "loop"
    /\ WroteSummary
    /\ ~Wrote("best_text", epoch)
    /\ best.acc_epoch # -1
    /\ best.acc_epoch # best.loss_epoch
    /\ fs.best_acc_file # fs.best_loss_file

\* ===================================================================
\* runs that are killed, and re-invoked over the same output directory
\* ===================================================================
\* the arguments of the runs of this specification: forced CPU, no metrics
\* sink, scheduled learning rate, no smoothing
RunArgs == {a \in ArgsSet : /\ a.force_cpu /\ a.no_tensorboard
                             /\ a.lr = None /\ ~a.ce_smoothing
                             /\ a.continue_weights = (a.continue_epoch # None)}

\* a process that has just been started with arguments a over directory d
\* (`saved` and `first` are histories and not the process's)
ProcessStart(a, d) ==
    /\ args = a
    /\ pre = d
    /\ fs = d
    /\ pc = "start"
    /\ device = None
    /\ model = None
    /\ start_epoch = BASELINE_EPOCH
    /\ init_step = None
    /\ sched = None
    /\ opt = None
    /\ funcs = [eval |-> "unset", train |-> "unset"]
    /\ best = NoBest
    /\ epoch = BASELINE_EPOCH
    /\ batch = 0
    /\ metrics = NoMetrics
    /\ passes = <<>>

\* a first run from scratch into an empty output directory
RunsInit ==
    /\ \E a \in RunArgs : a.continue_epoch = None /\ ProcessStart(a, EmptyFs)
    /\ saved = <<>>
    /\ first = None
    /\ prep = None

Running == pc \notin {"idle", "done", "aborted", "crashed", "killed"}

\* the process is killed from outside, wherever it is
Kill ==
    /\ Running
    /\ pc' = "killed"
    /\ UNCHANGED <<args, pre, device, fs, model, start_epoch, init_step, sched, opt,
                   funcs, best, epoch, batch, metrics, passes, saved, first, prep>>

\* the epochs a run over directory d can be resumed from: that of its last
\* numbered snapshot, and those its summary file names for the best artifacts
ResumePoints(d) ==
    LET numbered == {f.epoch : f \in d.weights}
        last == IF numbered = {} THEN {} ELSE {SetMax(numbered)}
        bests == IF d.best_text = None THEN {}
                 ELSE {Val(d.best_text).acc_epoch, Val(d.best_text).loss_epoch}
    IN  (last \cup bests) \ {-1}

\* the operator invokes train.py again over the directory the ended process
\* left: from scratch, or resumed from one of its resume points
Restart ==
    /\ pc \in {"killed", "done"}
    /\ pre = EmptyFs
    /\ fs # EmptyFs
    /\ \E a \in RunArgs :
          /\ a.weight_modulus = args.weight_modulus
          /\ a.continue_epoch # None => Val(a.continue_epoch) \in ResumePoints(fs)
          /\ args' = a
    /\ pre' = fs
    /\ pc' = "start"
    /\ device' = None
    /\ model' = None
    /\ start_epoch' = BASELINE_EPOCH
    /\ init_step' = None
    /\ sched' = None
    /\ opt' = None
    /\ funcs' = [eval |-> "unset", train |-> "unset"]
    /\ best' = NoBest
    /\ epoch' = BASELINE_EPOCH
    /\ batch' = 0
    /\ metrics' = NoMetrics
    /\ passes' = <<>>
    /\ UNCHANGED <<fs, saved, first, prep>>

RunsNext ==
    \/ ParseArgs
    \/ OutputPrep
    \/ TensorboardInit
    \/ BuildModel
    \/ ResumeLoad
    \/ ResumeNone
    \/ Setup
    \/ ResultsHeader
    \/ LoopHead
    \/ TrainBatch
    \/ EvalTrain
    \/ EvalTest
    \/ TrackAcc
    \/ TrackLoss
    \/ WriteBest
    \/ TensorboardLog
    \/ Snapshot
    \/ WriteRow
    \/ Finish
    \/ Kill
    \/ Restart

Runs == RunsInit /\ [][RunsNext]_vars

\* the data rows of the results log
DataRows ==
    IF fs.results_file = None THEN {}
    ELSE {Log[i] : i \in {k \in DOMAIN Log : ~Log[k].header}}
LoggedEpochs == {r.epoch : r \in DataRows}
\* the epoch in which a file was last written
LastWrite(file) ==
    LET at == {i \in DOMAIN saved : saved[i].file = file}
    IN  saved[SetMax(at)].epoch

\* C11 as stated: wherever the process is killed, every best artifact, every
\* numbered snapshot and the summary file were written in an epoch whose
\* result row is in the log.
C11_NoPartialEpochPersisted ==
    pc = "killed" =>
       \A i \in DOMAIN saved : saved[i].epoch \in LoggedEpochs

\* the row this run appended for the epoch labelled e
AppendedRow(e) ==
    LET rows == Appended
    IN  rows[CHOOSE i \in DOMAIN rows : rows[i].epoch = e]
\* the data rows the run found in the log
RowsBefore == {PreLog[i] : i \in {k \in DOMAIN PreLog : ~PreLog[k].header}}

\* C19 as stated: a run resumed over the directory of an interrupted run
\* replaces a best artifact only in an epoch whose metric is not worse than
\* that of any epoch logged before the interruption, so that the artifact
\* stays the one of the best epoch in the log.
C19_BestSurvivesResume ==
    (Resumed /\ pre # EmptyFs /\ BetweenEpochs /\ epoch > start_epoch) =>
       /\ fs.best_loss_file # pre.best_loss_file =>
             \A q \in RowsBefore :
                AppendedRow(LastWrite("best_loss_file")).eval_loss <= q.eval_loss
       /\ fs.best_acc_file # pre.best_acc_file =>
             \A q \in RowsBefore :
                AppendedRow(LastWrite("best_acc_file")).eval_acc >= q.eval_acc

\* C20 as stated: whatever runs have written to the output directory, the
\* results log starts with its only header and the epochs of its data rows
\* strictly increase.
C20_LogStrictlyIncreasing ==
    fs.results_file # None =>
       LET log == Log
       IN  /\ log[1] = CSV_HEADER
           /\ \A i \in 2..Len(log) : ~log[i].header
           /\ \A i \in 2..(Len(log) - 1) : log[i].epoch < log[i + 1].epoch

\* ===================================================================
\* the same run twice, with and without the metrics sink
\* ===================================================================
\* the arguments of the first of the two runs: forced CPU, the metrics sink
\* enabled, no smoothing, consistent resume arguments, scheduled or constant
\* learning rate, shortest or longest snapshot period
TwinArgs == {a \in ArgsSet : /\ a.force_cpu /\ ~a.no_tensorboard
                              /\ ~a.ce_smoothing
                              /\ a.continue_weights = (a.continue_epoch # None)
                              /\ a.weight_modulus \in {1, MaxModulus}}

\* a run with the sink: from scratch into an empty directory, or resumed over
\* the directory of an earlier run
TwinInit ==
    /\ \E a \in TwinArgs :
          ProcessStart(a, IF a.continue_weights THEN PriorFs ELSE EmptyFs)
    /\ saved = <<>>
    /\ first = None
    /\ prep = None

\* the second run is given the data of the first: its evaluation passes
\* return, pass after pass, what those of the first run returned
SameData ==
    first = None \/
       LET f == Val(first).passes
       IN  \A i \in DOMAIN passes :
              i <= Len(f) => (passes[i].loss = f[i].loss /\ passes[i].acc = f[i].acc)

ReplayEvalTrain == EvalTrain /\ SameData'

ReplayEvalTest == EvalTest /\ SameData'

\* the finished run is set aside, and train.py is invoked again with the same
\* arguments but -no_tensorboard over the directory as the first run found it
Rerun ==
    /\ pc = "done"
    /\ first = None
    /\ first' = Some([passes |-> passes, saved |-> saved, best |-> best, fs |-> fs])
    /\ args' = [args EXCEPT !.no_tensorboard = TRUE]
    /\ fs' = pre
    /\ pc' = "start"
    /\ device' = None
    /\ model' = None
    /\ start_epoch' = BASELINE_EPOCH
    /\ init_step' = None
    /\ sched' = None
    /\ opt' = None
    /\ funcs' = [eval |-> "unset", train |-> "unset"]
    /\ best' = NoBest
    /\ epoch' = BASELINE_EPOCH
    /\ batch' = 0
    /\ metrics' = NoMetrics
    /\ passes' = <<>>
    /\ saved' = <<>>
    /\ UNCHANGED <<pre, prep>>

TwinNext ==
    \/ ParseArgs
    \/ OutputPrep
    \/ TensorboardInit
    \/ BuildModel
    \/ ResumeLoad
    \/ ResumeNone
    \/ Setup
    \/ ResultsHeader
    \/ LoopHead
    \/ TrainBatch
    \/ ReplayEvalTrain
    \/ ReplayEvalTest
    \/ TrackAcc
    \/ TrackLoss
    \/ WriteBest
    \/ TensorboardLog
    \/ Snapshot
    \/ WriteRow
    \/ Finish
    \/ Rerun

Twin == TwinInit /\ [][TwinNext]_vars

\* the persistence surface without what belongs to the sink (its directory
\* and its emissions) and without the copy of the arguments
Outcome(d) ==
    [results_file |-> d.results_file,
     best_acc_file |-> d.best_acc_file,
     best_loss_file |-> d.best_loss_file,
     best_text |-> d.best_text,
     weights |-> d.weights,
     dirs |-> d.dirs \ {"tensorboard"}]

\* the held-out evaluations among the passes ps: one per executed epoch
Obs_of(ps) ==
    LET HeldOut(p) == p.kind = "eval" /\ p.loader = "test_loader"
    IN  SelectSeq(ps, HeldOut)

\* C13: the run without the sink goes, step by step, through the passes and
\* the file writes of the run with the sink, and ends with the same result
\* rows, best records, best artifacts, summary file and numbered snapshots;
\* the run with the sink has one emission per epoch on top, the run without
\* it none.
C13_SinkChangesNoOutcome ==
    first # None =>
       LET f == Val(first)
       IN  /\ IsPrefix(passes, f.passes)
           /\ IsPrefix(saved, f.saved)
           /\ fs.tensorboard = pre.tensorboard
           /\ "tensorboard" \in fs.dirs => "tensorboard" \in pre.dirs
           /\ Len(f.fs.tensorboard) = Len(pre.tensorboard) + Len(Obs_of(f.passes))
           /\ pc = "done" =>
                 /\ passes = f.passes
                 /\ saved = f.saved
                 /\ best = f.best
                 /\ Outcome(fs) = Outcome(f.fs)

\* C13 witness: both runs finished, several epochs each, the first with
\* emissions and the second without
C13_Witness ==
    /\ first # None
    /\ pc = "done"
    /\ Len(passes) >= 6
    /\ Val(first).fs.tensorboard # <<>>
    /\ fs.tensorboard = <<>>
    /\ fs.weights # pre.weights

====
